---- MODULE Spec2Model ----
(***************************************************************************)
(* A model of photoVerse's inference core:                                 *)
(*   models/adapters.py        PhotoVerseAdapter (construction, forward)   *)
(*   models/infer.py           run_inference                               *)
(*   models/modeling_utils.py  load_photoverse_model, save_progress        *)
(*                                                                         *)
(* Tensors are modelled by small integers (one scalar per position), the   *)
(* pretrained collaborators (vision encoder, text encoder, U-Net,          *)
(* autoencoder, scheduler) by what run_inference passes to them and gets   *)
(* back.  Three specifications share the variables:                        *)
(*   Spec         one call of run_inference, statement by statement        *)
(*   SpecAdapter  PhotoVerseAdapter.forward and the LayeredEmbedding       *)
(*                selection as functions of their inputs                   *)
(*   SpecCkpt     save_progress / load_photoverse_model on a small disk    *)
(***************************************************************************)
EXTENDS Integers, Sequences, FiniteSets, TLC

VARIABLES
    pc,        \* position in run_inference ("idle" outside a call)
    args,      \* the arguments of the call
    rng,       \* the draws made from the random-number source, in order
    latents,   \* the latent (one scalar stands for the tensor)
    noise,     \* the noise tensor of infer.py:51-59
    grad,      \* torch's gradient mode (is_grad_enabled)
    evals,     \* how often each network has been evaluated
    step,      \* the loop index i of infer.py:98
    iter,      \* the operations of the current (or last) loop iteration
    streams,   \* uncond ids, embedding lists and the four hidden-state streams
    err,       \* the exception that ended the call, "none" otherwise
    fwd,       \* SpecAdapter: the function applied, its input and result
    models,    \* SpecCkpt: the weights of image adapter, text adapter, U-Net
    disk,      \* SpecCkpt: file name -> checkpoint mapping
    last       \* SpecCkpt: the last operation with its pre-state

vars == <<pc, args, rng, latents, noise, grad, evals, step, iter, streams, err,
          fwd, models, disk, last>>

inferVars == <<pc, args, rng, latents, noise, grad, evals, step, iter, streams, err>>
ckptVars == <<models, disk, last>>

(***************************************************************************)
(* Bounds of the model.                                                    *)
(***************************************************************************)
MaxT == 2          \* scheduler.timesteps has 1..MaxT entries
MaxPred == 1       \* a U-Net prediction is in 0..MaxPred
MaxTokens == 3     \* SpecAdapter: num_tokens of the adapter is in 1..MaxTokens
MaxBranches == 2   \* Spec: num_tokens of each adapter is in 1..MaxBranches
MaxDepth == 2      \* len(image_features[2]) is in 1..MaxDepth

(***************************************************************************)
(* Sequence helpers.                                                       *)
(***************************************************************************)
RECURSIVE SumSeq(_)
SumSeq(s) == IF s = <<>> THEN 0 ELSE Head(s) + SumSeq(Tail(s))

Abs(x) == IF x < 0 THEN -x ELSE x

RECURSIVE Gcd(_, _)
Gcd(a, b) == IF b = 0 THEN a ELSE Gcd(b, a % b)

\* A value that need not be an integer is the fraction <<numerator,
\* denominator>> in lowest terms, denominator > 0.
Frac(n, d) == LET g == Gcd(Abs(n), d) IN <<n \div g, d \div g>>

\* x + q for an integer x and a fraction q
AddInt(x, q) == <<x * q[2] + q[1], q[2]>>

\* tensor.mean(dim=1) over a non-empty sequence of positions: the true mean
Mean(s) == Frac(SumSeq(s), Len(s))

(***************************************************************************)
(* PhotoVerseAdapter.  An embedding is a sequence of scalars: position 1   *)
(* is the CLS position (emb[:, :1]), the rest are the patch positions      *)
(* (emb[:, 1:]).  An adapter is its parameter mapping: one entry per       *)
(* registered branch, <<"mapping", i>> and <<"mapping_patch", i>>.         *)
(***************************************************************************)
AdapterKeys(num_tokens) ==
    {<<"mapping", i>> : i \in 0..(num_tokens - 1)}
        \cup {<<"mapping_patch", i>> : i \in 0..(num_tokens - 1)}

\* __init__: for i in range(num_tokens): setattr mapping_i, mapping_patch_i,
\* each with parameters of its own (init gives the initial values).
NewAdapter(num_tokens, init) == [k \in AdapterKeys(num_tokens) |-> init[k]]

\* The parameters a freshly constructed adapter starts with: every branch
\* differs from every other one, and the text adapter's parameters differ
\* from the image adapter's.
InitWeights == [k \in AdapterKeys(MaxTokens + 2) |->
                   IF k[1] = "mapping" THEN 2 * k[2] + 1 ELSE 2 * k[2] + 2]
TextInitWeights == [k \in DOMAIN InitWeights |-> InitWeights[k] + 10]

\* One feed-forward branch applied to one position: a scalar stand-in for
\* Linear-LayerNorm-LeakyReLU-Linear-LayerNorm-LeakyReLU-Linear with
\* parameters w.
Branch(w, x) == w * x + w

BranchOverPatches(w, patches) == [k \in 1..Len(patches) |-> Branch(w, patches[k])]

HasBranch(ad, name, i) == <<name, i>> \in DOMAIN ad

\* Faulty variant: every token is computed by the first global branch.
SharedGlobalBranch(i) == <<"mapping", 0>>

\* The branch that computes token number i.
GlobalBranchOf(i) == <<"mapping", i>>
PatchBranchOf(i) == <<"mapping_patch", i>>

\* hidden_state = mapping_i(emb[:, :1]) + mapping_patch_i(emb[:, 1:]).mean(dim=1)
Token(ad, i, emb) ==
    AddInt(Branch(ad[GlobalBranchOf(i)], Head(emb)),
           Mean(BranchOverPatches(ad[PatchBranchOf(i)], Tail(emb))))

RECURSIVE ForwardLoop(_, _, _, _)
\* for i, emb in enumerate(embs): ...; then torch.cat(hidden_states, dim=1).
\* getattr raises AttributeError at the first index without a branch;
\* torch.cat raises on an empty tuple.
ForwardLoop(ad, embs, i, acc) ==
    IF i = Len(embs)
    THEN IF acc = <<>>
         THEN [raised |-> "RuntimeError", out |-> <<>>, branch_evals |-> 2 * i]
         ELSE [raised |-> "none", out |-> acc, branch_evals |-> 2 * i]
    ELSE IF ~HasBranch(ad, "mapping", i)
         THEN [raised |-> "AttributeError", out |-> <<>>, branch_evals |-> 2 * i]
         ELSE ForwardLoop(ad, embs, i + 1, Append(acc, Token(ad, i, embs[i + 1])))

\* PhotoVerseAdapter.forward(embs)
Forward(ad, embs) == ForwardLoop(ad, embs, 0, <<>>)

\* adapter(embs, token_index=token_index): nn.Module.__call__ hands the
\* keyword to forward, and forward(self, embs) of adapters.py takes none, so
\* a PhotoVerseAdapter raises TypeError before any branch runs; an adapter
\* whose forward accepts the keyword runs as Forward.
CallWithTokenIndex(ad, embs, accepts_kw) ==
    IF accepts_kw THEN Forward(ad, embs)
    ELSE [raised |-> "TypeError", out |-> <<>>, branch_evals |-> 0]

(***************************************************************************)
(* The LayeredEmbedding of infer.py:80-87.                                 *)
(***************************************************************************)
\* The vision encoder on an image (1: the conditioning image, 0: the
\* all-zero image): element [0] of its output and the hidden states [2], one
\* per layer, each <<CLS, patch, patch>>.
HiddenState(image, layer) ==
    <<10 * image + layer + 1, 2 * (image + layer), 2 * (image + layer) + 2>>

ImageEncoder(image, depth) ==
    [first |-> <<10 * image, 4 * image, 4 * image + 2>>,
     hidden |-> [k \in 1..depth |-> HiddenState(image, k - 1)]]

\* Faulty variant: the guard lets the index len(image_features[2]) through.
LayerGuardOffByOne(i, n) == i <= n

\* The guard of the comprehension: i < len(image_features[2]).
LayerGuard(i, n) == i < n

\* Python's s[i] on a tuple of length n: negative i counts from the end,
\* i outside -n..n-1 raises IndexError.
PyInRange(i, n) == (-n <= i) /\ (i < n)
PyIndex(s, i) == IF i >= 0 THEN s[i + 1] ELSE s[Len(s) + i + 1]

RECURSIVE SelectLayers(_, _)
\* [hidden[i] for i in idx if i < len(hidden)]
SelectLayers(hidden, idx) ==
    IF idx = <<>> THEN [raised |-> "none", out |-> <<>>]
    ELSE LET i == Head(idx)
             rest == SelectLayers(hidden, Tail(idx))
         IN  IF ~LayerGuard(i, Len(hidden)) THEN rest
             ELSE IF ~PyInRange(i, Len(hidden))
                  THEN [raised |-> "IndexError", out |-> <<>>]
                  ELSE IF rest.raised # "none" THEN rest
                       ELSE [raised |-> "none",
                             out |-> <<PyIndex(hidden, i)>> \o rest.out]

\* [features[0]] + [features[2][i] for i in image_encoder_layers_idx if ...]
LayeredEmbedding(features, idx) ==
    LET sel == SelectLayers(features.hidden, idx)
    IN  IF sel.raised # "none" THEN sel
        ELSE [raised |-> "none", out |-> <<features.first>> \o sel.out]

(***************************************************************************)
(* run_inference: the collaborators.                                       *)
(***************************************************************************)
\* scheduler.set_timesteps(T); scheduler.timesteps: T decreasing timesteps.
Timesteps(T) == [k \in 1..T |-> T - k]

\* DPMSolverMultistepScheduler: init_noise_sigma is 1.0 and
\* scale_model_input returns its sample.
InitNoiseSigma == 1
ScaleModelInput(sample, t) == sample

\* scheduler.add_noise(latents, noise, timesteps[:1]): one forward step.
AddNoise(sample, eps, t) == sample + eps

\* scheduler.step(noise_pred, t, latents).prev_sample
SchedulerStep(noise_pred, t, sample) == sample - noise_pred

\* vae.config.scaling_factor, as an integer.
ScalingFactor == 2

\* torch.randn: one draw from the random-number source.  With a seed the
\* generator is torch.manual_seed(seed) and the value is fixed by the seed.
\* seed is <<>> for seed=None and <<s>> for seed=s.
NoiseValues == {0, 1}
RandnValues(seed) == IF seed = <<>> THEN NoiseValues ELSE {seed[1] % 2}
Randn(draws) == Append(draws, "randn")

\* Faulty variant: the posterior's mode is taken, which draws nothing.
LatentDistMode(draws) == draws

\* vae.encode(pixel_values).latent_dist.sample(): the posterior is sampled,
\* one more draw from the random-number source.
LatentDistSample(draws) == Append(draws, "latent_dist.sample")

\* Faulty variant: the example's negative ids are ignored.
AlwaysEmptyPrompt(negative) == "empty_prompt"

\* The unconditional input ids of infer.py:43-49: the example's
\* negative_text_input_ids when it carries them, else the tokenizer on ''.
UncondInputIds(negative) ==
    IF negative THEN "negative_text_input_ids" ELSE "empty_prompt"

\* text_encoder({...})[0]: the hidden states, named by what was encoded.
TextEncoder(ids, concept, placeholder) ==
    [ids |-> ids, concept_text_embeddings |-> concept,
     concept_placeholder_idx |-> placeholder]

\* Faulty variant: the two predictions are swapped.
GuidedSwapped(uncond, text, guidance_scale) ==
    text + guidance_scale * (uncond - text)

\* noise_pred_uncond + guidance_scale * (noise_pred_text - noise_pred_uncond)
Guided(uncond, text, guidance_scale) ==
    uncond + guidance_scale * (text - uncond)

\* Faulty variant: gradients on every step of a training-mode call.
GradOnEveryStep(training_mode, i, T) == training_mode

\* torch.set_grad_enabled(training_mode and (i == len(timesteps) - 1))
GradFlag(training_mode, i, T) == training_mode /\ (i = T - 1)

\* Faulty variant: the loop stops one timestep early.
LoopStopsEarly(i, T) == i + 1 < T

\* for i, t in enumerate(scheduler.timesteps)
LoopContinues(i, T) == i < T

(***************************************************************************)
(* run_inference: the state.                                               *)
(***************************************************************************)
NoEvals ==
    [image_encoder |-> 0, text_adapter |-> 0, image_adapter |-> 0,
     branch |-> 0, text_encoder |-> 0, unet |-> 0, vae_encode |-> 0,
     vae_decode |-> 0, scheduler_step |-> 0]

NoStreams ==
    [uncond_input_ids |-> "unset",
     image_embeddings |-> <<>>, uncond_image_embeddings |-> <<>>,
     concept_text_embeddings |-> <<>>,
     encoder_hidden_states_image |-> <<>>,
     uncond_encoder_hidden_states_image |-> <<>>,
     uncond_embeddings |-> <<>>, encoder_hidden_states |-> <<>>]

NoIter == [i |-> -1, t |-> -1, latent_model_input |-> 0, calls |-> <<>>,
           noise_pred |-> <<>>, prev |-> 0, saved_grad |-> FALSE]

\* The layer-index lists of a call: none, one layer and one beyond the
\* depth, one below -depth.
LayerLists == {<<>>, <<0, MaxDepth>>, <<-(MaxDepth + 1)>>}

Seeds == {<<>>, <<7>>}

GuidanceScales == {1, 2}

Args ==
    [timesteps : 1..MaxT, training_mode : BOOLEAN,
     from_noised_image : BOOLEAN, seed : Seeds, negative : BOOLEAN,
     layers_idx : LayerLists, depth : {MaxDepth},
     text_num_tokens : 1..MaxBranches, image_num_tokens : 1..MaxBranches,
     accepts_token_index : BOOLEAN, guidance_scale : GuidanceScales,
     grad_before : BOOLEAN]

NoFwd == [op |-> "none"]
NoModels == [image_adapter |-> <<>>, text_adapter |-> <<>>, unet |-> <<>>]
NoDisk == <<>>
NoLast == [op |-> "none"]

\* The two adapters handed to run_inference, each a PhotoVerseAdapter with
\* its own number of branch pairs and its own parameters.
TextAdapter == NewAdapter(args.text_num_tokens, TextInitWeights)
ImageAdapter == NewAdapter(args.image_num_tokens, InitWeights)

T == args.timesteps

Init ==
    /\ args \in Args
    /\ pc = "scheduler"
    /\ rng = <<>>
    /\ latents = 0
    /\ noise = 0
    /\ grad = args.grad_before
    /\ evals = NoEvals
    /\ step = 0
    /\ iter = NoIter
    /\ streams = NoStreams
    /\ err = "none"
    /\ fwd = NoFwd
    /\ models = NoModels
    /\ disk = NoDisk
    /\ last = NoLast

Raise(e) == pc' = "raised" /\ err' = e

(***************************************************************************)
(* run_inference, statement by statement.                                  *)
(***************************************************************************)
\* infer.py:39-40
SetScheduler ==
    /\ pc = "scheduler"
    /\ pc' = "uncond_ids"
    /\ UNCHANGED <<fwd, models, disk, last, args, rng, latents, noise, grad, evals, step, iter, streams, err>>

\* infer.py:43-49
MakeUncondInputIds ==
    /\ pc = "uncond_ids"
    /\ streams' = [streams EXCEPT !.uncond_input_ids = UncondInputIds(args.negative)]
    /\ pc' = "noise"
    /\ UNCHANGED <<fwd, models, disk, last, args, rng, latents, noise, grad, evals, step, iter, err>>

\* infer.py:52-59
CreateNoise ==
    /\ pc = "noise"
    /\ \E v \in RandnValues(args.seed) : noise' = v
    /\ rng' = Randn(rng)
    /\ pc' = "latents"
    /\ UNCHANGED <<fwd, models, disk, last, args, latents, grad, evals, step, iter, streams, err>>

\* infer.py:62-70
SetupLatents ==
    /\ pc = "latents"
    /\ IF args.from_noised_image
       THEN /\ \E sample \in NoiseValues :
                 latents' = AddNoise(sample * ScalingFactor, noise, Timesteps(T)[1])
                                * InitNoiseSigma
            /\ rng' = LatentDistSample(rng)
            /\ evals' = [evals EXCEPT !.vae_encode = @ + 1]
       ELSE /\ latents' = noise * InitNoiseSigma
            /\ UNCHANGED <<rng, evals>>
    /\ pc' = "encode_images"
    /\ UNCHANGED <<fwd, models, disk, last, args, noise, grad, step, iter, streams, err>>

\* infer.py:72-87
EncodeImages ==
    /\ pc = "encode_images"
    /\ evals' = [evals EXCEPT !.image_encoder = @ + 2]
    /\ LET cond == LayeredEmbedding(ImageEncoder(1, args.depth), args.layers_idx)
           uncond == LayeredEmbedding(ImageEncoder(0, args.depth), args.layers_idx)
       IN  IF cond.raised # "none"
           THEN Raise(cond.raised) /\ UNCHANGED streams
           ELSE /\ streams' = [streams EXCEPT !.image_embeddings = cond.out,
                                              !.uncond_image_embeddings = uncond.out]
                /\ pc' = "text_adapter"
                /\ UNCHANGED err
    /\ UNCHANGED <<fwd, models, disk, last, args, rng, latents, noise, grad, step, iter>>

\* infer.py:89
CallTextAdapter ==
    /\ pc = "text_adapter"
    /\ LET r == CallWithTokenIndex(TextAdapter, streams.image_embeddings,
                                   args.accepts_token_index)
       IN  /\ evals' = [evals EXCEPT !.text_adapter = @ + 1,
                                     !.branch = @ + r.branch_evals]
           /\ IF r.raised # "none"
              THEN Raise(r.raised) /\ UNCHANGED streams
              ELSE /\ streams' = [streams EXCEPT !.concept_text_embeddings = r.out]
                   /\ pc' = "image_adapter"
                   /\ UNCHANGED err
    /\ UNCHANGED <<fwd, models, disk, last, args, rng, latents, noise, grad, step, iter>>

\* infer.py:90
CallImageAdapter ==
    /\ pc = "image_adapter"
    /\ LET r == CallWithTokenIndex(ImageAdapter, streams.image_embeddings,
                                   args.accepts_token_index)
       IN  /\ evals' = [evals EXCEPT !.image_adapter = @ + 1,
                                     !.branch = @ + r.branch_evals]
           /\ IF r.raised # "none"
              THEN Raise(r.raised) /\ UNCHANGED streams
              ELSE /\ streams' = [streams EXCEPT !.encoder_hidden_states_image = r.out]
                   /\ pc' = "image_adapter_uncond"
                   /\ UNCHANGED err
    /\ UNCHANGED <<fwd, models, disk, last, args, rng, latents, noise, grad, step, iter>>

\* infer.py:91
CallImageAdapterUncond ==
    /\ pc = "image_adapter_uncond"
    /\ LET r == CallWithTokenIndex(ImageAdapter, streams.uncond_image_embeddings,
                                   args.accepts_token_index)
       IN  /\ evals' = [evals EXCEPT !.image_adapter = @ + 1,
                                     !.branch = @ + r.branch_evals]
           /\ IF r.raised # "none"
              THEN Raise(r.raised) /\ UNCHANGED streams
              ELSE /\ streams' = [streams EXCEPT
                                     !.uncond_encoder_hidden_states_image = r.out]
                   /\ pc' = "text_encoder_uncond"
                   /\ UNCHANGED err
    /\ UNCHANGED <<fwd, models, disk, last, args, rng, latents, noise, grad, step, iter>>

\* infer.py:93
EncodeUncondText ==
    /\ pc = "text_encoder_uncond"
    /\ streams' = [streams EXCEPT !.uncond_embeddings =
                       <<TextEncoder(streams.uncond_input_ids, <<>>, FALSE)>>]
    /\ evals' = [evals EXCEPT !.text_encoder = @ + 1]
    /\ pc' = "text_encoder"
    /\ UNCHANGED <<fwd, models, disk, last, args, rng, latents, noise, grad, step, iter, err>>

\* infer.py:94-96
EncodeText ==
    /\ pc = "text_encoder"
    /\ streams' = [streams EXCEPT !.encoder_hidden_states =
                       <<TextEncoder("text_input_ids",
                                     streams.concept_text_embeddings, TRUE)>>]
    /\ evals' = [evals EXCEPT !.text_encoder = @ + 1]
    /\ pc' = "loop"
    /\ UNCHANGED <<fwd, models, disk, last, args, rng, latents, noise, grad, step, iter, err>>

\* infer.py:98-100: the next timestep, the scoped gradient mode, the scaled
\* latent.
EnterStep ==
    /\ pc = "loop"
    /\ LoopContinues(step, T)
    /\ grad' = GradFlag(args.training_mode, step, T)
    /\ iter' = [i |-> step, t |-> Timesteps(T)[step + 1],
                latent_model_input |-> ScaleModelInput(latents, Timesteps(T)[step + 1]),
                calls |-> <<>>, noise_pred |-> <<>>, prev |-> latents,
                saved_grad |-> grad]
    /\ pc' = "unet_uncond"
    /\ UNCHANGED <<fwd, models, disk, last, args, rng, latents, noise, evals, step, streams, err>>

\* infer.py:103-107
UnetUncond ==
    /\ pc = "unet_uncond"
    /\ \E out \in 0..MaxPred :
         iter' = [iter EXCEPT !.calls = Append(@,
                     [latent |-> iter.latent_model_input, t |-> iter.t,
                      text |-> streams.uncond_embeddings,
                      image |-> streams.uncond_encoder_hidden_states_image,
                      grad |-> grad, sample |-> out])]
    /\ evals' = [evals EXCEPT !.unet = @ + 1]
    /\ pc' = "unet_text"
    /\ UNCHANGED <<fwd, models, disk, last, args, rng, latents, noise, grad, step, streams, err>>

\* infer.py:110-114
UnetText ==
    /\ pc = "unet_text"
    /\ \E out \in 0..MaxPred :
         iter' = [iter EXCEPT !.calls = Append(@,
                     [latent |-> iter.latent_model_input, t |-> iter.t,
                      text |-> streams.encoder_hidden_states,
                      image |-> streams.encoder_hidden_states_image,
                      grad |-> grad, sample |-> out])]
    /\ evals' = [evals EXCEPT !.unet = @ + 1]
    /\ pc' = "solver_step"
    /\ UNCHANGED <<fwd, models, disk, last, args, rng, latents, noise, grad, step, streams, err>>

\* infer.py:116-119, then the with block of infer.py:99 ends and the
\* gradient mode it saved is restored.
SolverStep ==
    /\ pc = "solver_step"
    /\ LET noise_pred == Guided(iter.calls[1].sample, iter.calls[2].sample,
                                args.guidance_scale)
       IN  /\ iter' = [iter EXCEPT !.noise_pred = <<noise_pred>>]
           /\ latents' = SchedulerStep(noise_pred, iter.t, latents)
    /\ evals' = [evals EXCEPT !.scheduler_step = @ + 1]
    /\ grad' = iter.saved_grad
    /\ step' = step + 1
    /\ pc' = "loop"
    /\ UNCHANGED <<fwd, models, disk, last, args, rng, noise, streams, err>>

\* infer.py:121-123
Decode ==
    /\ pc = "loop"
    /\ ~LoopContinues(step, T)
    /\ evals' = [evals EXCEPT !.vae_decode = @ + 1]
    /\ pc' = "done"
    /\ UNCHANGED <<fwd, models, disk, last, args, rng, latents, noise, grad, step, iter, streams, err>>

Next ==
    \/ SetScheduler
    \/ MakeUncondInputIds
    \/ CreateNoise
    \/ SetupLatents
    \/ EncodeImages
    \/ CallTextAdapter
    \/ CallImageAdapter
    \/ CallImageAdapterUncond
    \/ EncodeUncondText
    \/ EncodeText
    \/ EnterStep
    \/ UnetUncond
    \/ UnetText
    \/ SolverStep
    \/ Decode

Spec == Init /\ [][Next]_vars

(***************************************************************************)
(* Properties of run_inference (specification Spec).                       *)
(***************************************************************************)
InStep == pc \in {"unet_uncond", "unet_text", "solver_step"}
BeforeLatents == pc \in {"scheduler", "uncond_ids", "noise"}
InLoop == InStep \/ pc \in {"loop", "done"}

\* C1: a call whose scheduler yields T timesteps runs T iterations; each
\* evaluates the U-Net twice, first with the unconditional pair and then with
\* the conditional pair, both at the iteration's timestep and on the same
\* scaled latent, and then makes one scheduler.step; the decode happens once,
\* after 2T U-Net evaluations and T solver steps.
C1_StepCount ==
    /\ step <= args.timesteps
    /\ evals.scheduler_step = step
    /\ evals.unet = 2 * step + (IF InStep THEN Len(iter.calls) ELSE 0)
    /\ pc = "unet_uncond" => Len(iter.calls) = 0
    /\ pc = "unet_text" => Len(iter.calls) = 1
    /\ pc = "solver_step" =>
          /\ Len(iter.calls) = 2
          /\ iter.calls[1].text = streams.uncond_embeddings
          /\ iter.calls[1].image = streams.uncond_encoder_hidden_states_image
          /\ iter.calls[2].text = streams.encoder_hidden_states
          /\ iter.calls[2].image = streams.encoder_hidden_states_image
          /\ \A k \in 1..2 :
                /\ iter.calls[k].t = args.timesteps - 1 - step
                /\ iter.calls[k].latent = iter.latent_model_input
          /\ iter.latent_model_input = latents
    /\ evals.vae_decode = (IF pc = "done" THEN 1 ELSE 0)
    /\ pc = "done" =>
          /\ evals.unet = 2 * args.timesteps
          /\ evals.scheduler_step = args.timesteps

C1_Witness ==
    /\ pc = "done"
    /\ args.timesteps = MaxT
    /\ args.from_noised_image
    /\ evals.unet = 2 * MaxT
    /\ evals.scheduler_step = MaxT

\* C2: with training_mode False every denoising step runs with gradients
\* disabled; with training_mode True they are enabled on step T-1 and on no
\* earlier step; outside a step, and after the call, the gradient mode is the
\* one the caller had.
C2_GradScoped ==
    /\ InStep =>
          /\ ~args.training_mode => ~grad
          /\ args.training_mode => (grad <=> step = args.timesteps - 1)
          /\ \A k \in 1..Len(iter.calls) : iter.calls[k].grad = grad
    /\ ~InStep => grad = args.grad_before

C2_Witness ==
    /\ pc = "done"
    /\ args.training_mode
    /\ args.timesteps = MaxT
    /\ ~args.grad_before
    /\ iter.calls[2].grad
    /\ ~grad

\* The number of embeddings run_inference hands to the adapters differs from
\* the number of branches one of the adapters was constructed with.
ConfigMismatch ==
    LET e == LayeredEmbedding(ImageEncoder(1, args.depth), args.layers_idx)
    IN  /\ e.raised = "none"
        /\ \/ Len(e.out) # args.text_num_tokens
           \/ Len(e.out) # args.image_num_tokens

\* C3: a mismatch between num_tokens and the number of embeddings ends the
\* call with an error before the vision encoder, an adapter branch, the text
\* encoder or the U-Net has run, and the call never returns an output.
C3_FailFast ==
    ConfigMismatch =>
        /\ pc # "done"
        /\ evals.image_encoder = 0
        /\ evals.branch = 0
        /\ evals.text_encoder = 0
        /\ evals.unet = 0

\* C4 as claimed: the random-number source is drawn from exactly once in a
\* call, by the draw that initializes the latent.
C4_SingleDraw ==
    /\ Len(rng) <= 1
    /\ ~BeforeLatents => rng = <<"randn">>

\* C4 as amended: the noise draw happens once in every call; with
\* from_noised_image the sample of the autoencoder's latent distribution is a
\* second draw; both are made while the latent is initialized and nothing
\* later draws.
C4_DrawsAtInit ==
    /\ BeforeLatents => rng = <<>>
    /\ pc = "latents" => rng = <<"randn">>
    /\ ~BeforeLatents /\ pc # "latents" =>
          rng = (IF args.from_noised_image
                 THEN <<"randn", "latent_dist.sample">>
                 ELSE <<"randn">>)

C4_Witness ==
    /\ pc = "done"
    /\ args.from_noised_image
    /\ args.seed # <<>>
    /\ Len(rng) = 2

\* The adapters are called in the order text (conditional set), image
\* (conditional set), image (zero-image set), once each.
AdapterCallCounts ==
    /\ evals.text_adapter <= 1
    /\ evals.image_adapter <= 2
    /\ evals.image_adapter > 0 => evals.text_adapter = 1
    /\ evals.image_adapter = 1 /\ pc # "raised" =>
          /\ streams.encoder_hidden_states_image # <<>>
          /\ streams.uncond_encoder_hidden_states_image = <<>>
    /\ InLoop => evals.text_adapter = 1 /\ evals.image_adapter = 2
    /\ pc = "text_encoder_uncond" =>
          /\ streams.concept_text_embeddings
                = Forward(TextAdapter, streams.image_embeddings).out
          /\ streams.encoder_hidden_states_image
                = Forward(ImageAdapter, streams.image_embeddings).out
          /\ streams.uncond_encoder_hidden_states_image
                = Forward(ImageAdapter, streams.uncond_image_embeddings).out

\* C5 as claimed: the unconditional text-hidden-states of every denoising
\* step are the text encoder's output on the empty prompt without
\* substitution, whatever the example carries.
C5_EmptyPromptUncond ==
    /\ pc \in {"unet_text", "solver_step"} =>
          iter.calls[1].text = <<TextEncoder("empty_prompt", <<>>, FALSE)>>
    /\ AdapterCallCounts

\* C5 as amended: they are the text encoder's output, without substitution,
\* on the example's negative_text_input_ids when it carries them and on the
\* empty prompt otherwise; the text adapter is called once and the image
\* adapter twice, conditional set first.
C5_UncondStream ==
    /\ pc \in {"unet_text", "solver_step"} =>
          iter.calls[1].text =
              <<[ids |-> IF args.negative THEN "negative_text_input_ids"
                         ELSE "empty_prompt",
                 concept_text_embeddings |-> <<>>,
                 concept_placeholder_idx |-> FALSE]>>
    /\ AdapterCallCounts

C5_Witness ==
    /\ pc = "solver_step"
    /\ step = 1
    /\ args.negative
    /\ iter.calls[1].text[1].ids = "negative_text_input_ids"
    /\ evals.text_adapter = 1
    /\ evals.image_adapter = 2

\* C9: with guidance_scale = 1 the guided prediction of every step equals
\* the conditional prediction, and the next latent is the solver's step on
\* the conditional prediction alone.
C9_GuidanceDegenerate ==
    (args.guidance_scale = 1 /\ iter.noise_pred # <<>>) =>
        /\ iter.noise_pred[1] = iter.calls[2].sample
        /\ latents = iter.prev - iter.calls[2].sample

C9_Witness ==
    /\ args.guidance_scale = 1
    /\ pc = "done"
    /\ args.timesteps = MaxT
    /\ iter.noise_pred # <<>>
    /\ iter.calls[1].sample # iter.calls[2].sample

(***************************************************************************)
(* SpecAdapter: PhotoVerseAdapter.forward and the LayeredEmbedding         *)
(* selection applied to inputs drawn from bounded sets.                    *)
(***************************************************************************)
MaxLayers == 2     \* image_encoder_layers_idx has 0..MaxLayers entries

SeqsUpTo(S, n) == UNION {[1..k -> S] : k \in 0..n}

\* Embeddings <<CLS, patch, ...>> with one, two or three patch positions.
EmbPool == {<<1, 2, 4>>, <<3, 0, 6>>, <<5, 2>>, <<2, 1, 2, 4>>}

LayerIndices == (-(MaxDepth + 1))..(MaxDepth + 1)

ForwardInputs ==
    [kind : {"forward"}, num_tokens : 1..MaxTokens,
     embs : SeqsUpTo(EmbPool, MaxTokens + 1),
     layers_idx : {<<>>}, depth : {1}]

SelectInputs ==
    [kind : {"select"}, num_tokens : {1}, embs : {<<>>},
     layers_idx : SeqsUpTo(LayerIndices, MaxLayers), depth : 1..MaxDepth]

NoRes == [raised |-> "none", out |-> <<>>]

IdleArgs ==
    [timesteps |-> 1, training_mode |-> FALSE, from_noised_image |-> FALSE,
     seed |-> <<>>, negative |-> FALSE, layers_idx |-> <<>>, depth |-> 1,
     text_num_tokens |-> 1, image_num_tokens |-> 1,
     accepts_token_index |-> FALSE, guidance_scale |-> 1,
     grad_before |-> FALSE]

InferIdle ==
    /\ pc = "idle"
    /\ args = IdleArgs
    /\ rng = <<>>
    /\ latents = 0
    /\ noise = 0
    /\ grad = FALSE
    /\ evals = NoEvals
    /\ step = 0
    /\ iter = NoIter
    /\ streams = NoStreams
    /\ err = "none"

InitAdapter ==
    /\ InferIdle
    /\ \E in \in ForwardInputs \cup SelectInputs :
         fwd = [op |-> "input", in |-> in, res |-> NoRes, res_uncond |-> NoRes]
    /\ models = NoModels
    /\ disk = NoDisk
    /\ last = NoLast

\* adapter(embs) on a freshly constructed PhotoVerseAdapter(num_tokens)
ApplyForward ==
    /\ fwd.op = "input"
    /\ fwd.in.kind = "forward"
    /\ LET r == Forward(NewAdapter(fwd.in.num_tokens, InitWeights), fwd.in.embs)
       IN  fwd' = [fwd EXCEPT !.op = "forward",
                              !.res = [raised |-> r.raised, out |-> r.out]]
    /\ UNCHANGED <<inferVars, ckptVars>>

\* infer.py:80-84 on the encoder's outputs for the conditioning image and
\* for the all-zero image
ApplySelect ==
    /\ fwd.op = "input"
    /\ fwd.in.kind = "select"
    /\ fwd' = [fwd EXCEPT
                 !.op = "select",
                 !.res = LayeredEmbedding(ImageEncoder(1, fwd.in.depth),
                                          fwd.in.layers_idx),
                 !.res_uncond = LayeredEmbedding(ImageEncoder(0, fwd.in.depth),
                                                 fwd.in.layers_idx)]
    /\ UNCHANGED <<inferVars, ckptVars>>

NextAdapter ==
    \/ ApplyForward
    \/ ApplySelect

SpecAdapter == InitAdapter /\ [][NextAdapter]_vars

\* C7: an adapter constructed with num_tokens = N, given exactly N
\* embeddings, returns N tokens; token i is global branch i on the CLS
\* position of embedding i plus the mean over the patch positions of patch
\* branch i, at position i (the token a fraction tok[1] / tok[2]).
C7_TokenPerBranch ==
    (fwd.op = "forward" /\ Len(fwd.in.embs) = fwd.in.num_tokens) =>
        /\ fwd.res.raised = "none"
        /\ Len(fwd.res.out) = fwd.in.num_tokens
        /\ \A i \in 0..(fwd.in.num_tokens - 1) :
              LET emb == fwd.in.embs[i + 1]
                  g == InitWeights[<<"mapping", i>>]
                  p == InitWeights[<<"mapping_patch", i>>]
                  n == Len(emb) - 1
                  tok == fwd.res.out[i + 1]
              IN  /\ tok[2] > 0
                  /\ tok[1] * n =
                        tok[2] * ((g * emb[1] + g) * n
                                    + SumSeq([k \in 1..n |-> p * emb[k + 1] + p]))

C7_Witness ==
    /\ fwd.op = "forward"
    /\ fwd.in.num_tokens = MaxTokens
    /\ Len(fwd.in.embs) = MaxTokens
    /\ fwd.in.embs[1] # fwd.in.embs[2]
    /\ Len(fwd.res.out) = MaxTokens
    /\ \E k \in 1..MaxTokens : fwd.res.out[k][2] > 1

\* The hidden states the claim expects: position by position, the requested
\* indices that pass Keep, each read with Python's indexing.
CountKept(idx, k, depth) == Cardinality({j \in 1..k : idx[j] < depth})

\* C6 as claimed: for every index list and every depth the selection never
\* raises and returns the first output followed by the hidden states of the
\* requested indices within 0..depth-1, in order; the other indices are
\* omitted; both lists have the same length.
C6_NeverRaises ==
    fwd.op = "select" =>
        LET idx == fwd.in.layers_idx
            d == fwd.in.depth
            kept == {j \in 1..Len(idx) : idx[j] >= 0 /\ idx[j] < d}
        IN  /\ fwd.res.raised = "none"
            /\ Len(fwd.res.out) = 1 + Cardinality(kept)
            /\ Len(fwd.res_uncond.out) = Len(fwd.res.out)

\* C6 as amended: for every list of indices that are all >= -depth the
\* selection does not raise; it returns the first output followed by the
\* hidden states of the requested indices below depth, in order, a negative
\* index counting from the end; every index >= depth is omitted and shortens
\* the list by one; both lists have the same length.  An index below -depth
\* raises IndexError.
C6_GuardedSelection ==
    fwd.op = "select" =>
        LET idx == fwd.in.layers_idx
            d == fwd.in.depth
            hidden == ImageEncoder(1, d).hidden
        IN  IF \A j \in 1..Len(idx) : idx[j] >= -d
            THEN /\ fwd.res.raised = "none"
                 /\ fwd.res.out[1] = ImageEncoder(1, d).first
                 /\ Len(fwd.res.out) = 1 + CountKept(idx, Len(idx), d)
                 /\ \A j \in 1..Len(idx) :
                       idx[j] < d =>
                          fwd.res.out[1 + CountKept(idx, j, d)] =
                              hidden[IF idx[j] >= 0 THEN idx[j] + 1
                                     ELSE d + idx[j] + 1]
                 /\ fwd.res_uncond.raised = "none"
                 /\ Len(fwd.res_uncond.out) = Len(fwd.res.out)
            ELSE /\ fwd.res.raised = "IndexError"
                 /\ fwd.res_uncond.raised = "IndexError"

C6_Witness ==
    /\ fwd.op = "select"
    /\ fwd.in.depth = MaxDepth
    /\ fwd.in.layers_idx = <<MaxDepth, 0>>
    /\ fwd.res.raised = "none"
    /\ Len(fwd.res.out) = 2

(***************************************************************************)
(* SpecCkpt: save_progress and load_photoverse_model.  A state dict is a   *)
(* function from parameter names to values; a U-Net parameter name is the  *)
(* sequence of its characters; a file name is a sequence of string pieces, *)
(* one per digit in the step suffix.                                       *)
(***************************************************************************)
MaxOps == 3        \* at most MaxOps saves and loads in a behaviour

Groups == {"image_adapter", "text_adapter", "cross_attention_adapter"}

\* The parameter names of the U-Net's state dict, character by character.
\* down.attn2.to_q.weight
KeyDownToQ ==
    <<"d", "o", "w", "n", ".", "a", "t", "t", "n", "2", ".", "t", "o",
    "_", "q", ".", "w", "e", "i", "g", "h", "t">>
\* down.attn2.to_k.lora_A.weight
KeyDownToKLora ==
    <<"d", "o", "w", "n", ".", "a", "t", "t", "n", "2", ".", "t", "o",
    "_", "k", ".", "l", "o", "r", "a", "_", "A", ".", "w", "e", "i", "g",
    "h", "t">>
\* mid.attn2.to_v.weight
KeyMidToV ==
    <<"m", "i", "d", ".", "a", "t", "t", "n", "2", ".", "t", "o", "_",
    "v", ".", "w", "e", "i", "g", "h", "t">>
\* mid.attn2.processor.weight
KeyMidProcessor ==
    <<"m", "i", "d", ".", "a", "t", "t", "n", "2", ".", "p", "r", "o",
    "c", "e", "s", "s", "o", "r", ".", "w", "e", "i", "g", "h", "t">>
\* mid.attn2.to_k_ip.weight
KeyMidToKIp ==
    <<"m", "i", "d", ".", "a", "t", "t", "n", "2", ".", "t", "o", "_",
    "k", "_", "i", "p", ".", "w", "e", "i", "g", "h", "t">>
\* mid.attn2.to_out.weight
KeyMidToOut ==
    <<"m", "i", "d", ".", "a", "t", "t", "n", "2", ".", "t", "o", "_",
    "o", "u", "t", ".", "w", "e", "i", "g", "h", "t">>
\* up.attn1.to_q.weight
KeyUpAttn1ToQ ==
    <<"u", "p", ".", "a", "t", "t", "n", "1", ".", "t", "o", "_", "q",
    ".", "w", "e", "i", "g", "h", "t">>
\* up.attn1.processor.weight
KeyUpAttn1Processor ==
    <<"u", "p", ".", "a", "t", "t", "n", "1", ".", "p", "r", "o", "c",
    "e", "s", "s", "o", "r", ".", "w", "e", "i", "g", "h", "t">>
\* conv_in.weight
KeyConvIn ==
    <<"c", "o", "n", "v", "_", "i", "n", ".", "w", "e", "i", "g", "h",
    "t">>

UnetKeyList ==
    <<KeyDownToQ, KeyDownToKLora, KeyMidToV,
      KeyMidProcessor, KeyMidToKIp, KeyMidToOut,
      KeyUpAttn1ToQ, KeyUpAttn1Processor, KeyConvIn>>

UnetKeys == {UnetKeyList[k] : k \in 1..Len(UnetKeyList)}

\* A freshly built pipeline (load_models): two adapters with parameters of
\* their own and the U-Net.
FreshModels ==
    [image_adapter |-> NewAdapter(1, InitWeights),
     text_adapter |-> NewAdapter(1, TextInitWeights),
     unet |-> [key \in UnetKeys |->
                 20 + (CHOOSE k \in 1..Len(UnetKeyList) : UnetKeyList[k] = key)]]

\* The substrings save_progress looks for.
Attn2 == <<"a", "t", "t", "n", "2">>
Processor == <<"p", "r", "o", "c", "e", "s", "s", "o", "r">>
ToQ == <<"t", "o", "_", "q">>
ToK == <<"t", "o", "_", "k">>
ToV == <<"t", "o", "_", "v">>

\* part in key: part occurs in key as a substring.
Contains(key, part) ==
    \E k \in 0..(Len(key) - Len(part)) : SubSeq(key, k + 1, k + Len(part)) = part

\* Faulty variant: the attn2 test is dropped.
AnyAttentionKey(key) ==
    Contains(key, Processor) \/ Contains(key, ToQ)
        \/ Contains(key, ToK) \/ Contains(key, ToV)

\* if "attn2" in key: if "processor" in key or "to_q" in key or ...
IsCrossAttentionKey(key) ==
    /\ Contains(key, Attn2)
    /\ \/ Contains(key, Processor)
       \/ Contains(key, ToQ)
       \/ Contains(key, ToK)
       \/ Contains(key, ToV)

DigitChars == <<"0", "1", "2", "3", "4", "5", "6", "7", "8", "9">>

RECURSIVE Str(_)
\* str(step) for step >= 0
Str(n) == IF n < 10 THEN <<DigitChars[n + 1]>>
          ELSE Str(n \div 10) \o <<DigitChars[(n % 10) + 1]>>

ZfillWidth == 6

RECURSIVE Zfill(_, _)
\* s.zfill(width): zeros on the left up to width, nothing cut
Zfill(s, width) == IF Len(s) >= width THEN s ELSE Zfill(<<"0">> \o s, width)

\* step is <<>> for step=None and <<n>> for step=n.
FileName(stp) ==
    IF stp # <<>>
    THEN <<"photoverse_">> \o Zfill(Str(stp[1]), ZfillWidth) \o <<".pt">>
    ELSE <<"photoverse.pt">>

\* final_state_dict of save_progress
FinalStateDict(m) ==
    [image_adapter |-> m.image_adapter,
     text_adapter |-> m.text_adapter,
     cross_attention_adapter |->
         [key \in {k \in DOMAIN m.unet : IsCrossAttentionKey(k)} |-> m.unet[key]]]

\* module.load_state_dict(sd, strict): the entries of sd whose names the
\* module has replace the module's; then strict loading raises when a name
\* is missing or unexpected, with the matching entries already copied.
LoadStateDict(module, sd, strict) ==
    [raised |-> strict /\ DOMAIN sd # DOMAIN module,
     sd |-> [k \in DOMAIN module |-> IF k \in DOMAIN sd THEN sd[k] ELSE module[k]]]

\* The checkpoint entry each module is restored from.
ImageAdapterEntry == "image_adapter"
\* Faulty variant: the text adapter is restored from the image adapter's entry.
TextAdapterFromImageEntry == "image_adapter"
TextAdapterEntry == "text_adapter"
CrossAttentionEntry == "cross_attention_adapter"

\* load_photoverse_model after torch.load: the three ifs in order; a raise
\* leaves the later modules as they were.
LoadPhotoverseModel(state_dict, m) ==
    LET img == IF ImageAdapterEntry \in DOMAIN state_dict
               THEN LoadStateDict(m.image_adapter, state_dict[ImageAdapterEntry], TRUE)
               ELSE [raised |-> FALSE, sd |-> m.image_adapter]
        txt == IF ~img.raised /\ TextAdapterEntry \in DOMAIN state_dict
               THEN LoadStateDict(m.text_adapter, state_dict[TextAdapterEntry], TRUE)
               ELSE [raised |-> FALSE, sd |-> m.text_adapter]
        net == IF ~img.raised /\ ~txt.raised
                    /\ CrossAttentionEntry \in DOMAIN state_dict
               THEN LoadStateDict(m.unet, state_dict[CrossAttentionEntry], FALSE)
               ELSE [raised |-> FALSE, sd |-> m.unet]
    IN  [raised |-> img.raised \/ txt.raised \/ net.raised,
         models |-> [image_adapter |-> img.sd, text_adapter |-> txt.sd, unet |-> net.sd]]

\* The steps a save is called with: None, 0, a small step, a seven-digit step.
Steps == {<<>>, <<0>>, <<7>>, <<1000000>>}

\* A trained pipeline whose adapters have num_tokens branch pairs.
TrainedModels(num_tokens) ==
    [image_adapter |->
         NewAdapter(num_tokens, [k \in DOMAIN InitWeights |-> InitWeights[k] + 100]),
     text_adapter |->
         NewAdapter(num_tokens, [k \in DOMAIN InitWeights |-> TextInitWeights[k] + 100]),
     unet |-> [k \in UnetKeys |-> FreshModels.unet[k] + 100]]

GivenPath == <<"given.pt">>

\* A checkpoint given to the pipeline: any subset of the three groups of a
\* checkpoint saved from a trained pipeline, of this pipeline's architecture
\* (adapters with one branch pair) or with one more branch pair.
GivenCheckpoint(present, num_tokens) ==
    [g \in present |-> FinalStateDict(TrainedModels(num_tokens))[g]]

InitCkpt ==
    /\ InferIdle
    /\ fwd = NoFwd
    /\ models = FreshModels
    /\ \E present \in SUBSET Groups, num_tokens \in 1..2 :
         disk = (GivenPath :> GivenCheckpoint(present, num_tokens))
    /\ last = [op |-> "none", path |-> <<>>, stp |-> <<>>, pre |-> FreshModels,
               raised |-> FALSE, n |-> 0]

\* save_progress(image_adapter, text_adapter, unet, accelerator, output_path, step)
SaveProgress ==
    /\ last.n < MaxOps
    /\ \E stp \in Steps :
         /\ disk' = (FileName(stp) :> FinalStateDict(models)) @@ disk
         /\ last' = [op |-> "save", path |-> FileName(stp), stp |-> stp,
                     pre |-> models, raised |-> FALSE, n |-> last.n + 1]
    /\ UNCHANGED <<inferVars, fwd, models>>

\* load_photoverse_model(path, image_adapter, text_adapter, unet)
LoadModel ==
    /\ last.n < MaxOps
    /\ \E path \in DOMAIN disk :
         LET r == LoadPhotoverseModel(disk[path], models)
         IN  /\ models' = r.models
             /\ last' = [op |-> "load", path |-> path, stp |-> <<>>,
                         pre |-> models, raised |-> r.raised, n |-> last.n + 1]
    /\ UNCHANGED <<inferVars, fwd, disk>>

NextCkpt ==
    \/ SaveProgress
    \/ LoadModel

SpecCkpt == InitCkpt /\ [][NextCkpt]_vars

LoadedFile == disk[last.path]

\* The adapter groups of the loaded file have the parameter names of the
\* adapters they are loaded into.
FileFitsAdapters ==
    \A g \in {"image_adapter", "text_adapter"} \cap DOMAIN LoadedFile :
        DOMAIN LoadedFile[g] = DOMAIN last.pre[g]

\* C8: for every subset of the three keys in the checkpoint, each absent
\* group's weights are as before the load, and, the file's adapter groups
\* being of the adapters' architecture, the load does not raise and each
\* present group is restored from the checkpoint (of the U-Net exactly the
\* entries the file holds).
C8_IndependentGroups ==
    last.op = "load" =>
        /\ "image_adapter" \notin DOMAIN LoadedFile =>
              models.image_adapter = last.pre.image_adapter
        /\ "text_adapter" \notin DOMAIN LoadedFile =>
              models.text_adapter = last.pre.text_adapter
        /\ "cross_attention_adapter" \notin DOMAIN LoadedFile =>
              models.unet = last.pre.unet
        /\ last.raised <=> ~FileFitsAdapters
        /\ FileFitsAdapters =>
              /\ "image_adapter" \in DOMAIN LoadedFile =>
                    models.image_adapter = LoadedFile["image_adapter"]
              /\ "text_adapter" \in DOMAIN LoadedFile =>
                    models.text_adapter = LoadedFile["text_adapter"]
              /\ "cross_attention_adapter" \in DOMAIN LoadedFile =>
                    \A k \in UnetKeys :
                       models.unet[k] =
                           IF k \in DOMAIN LoadedFile["cross_attention_adapter"]
                           THEN LoadedFile["cross_attention_adapter"][k]
                           ELSE last.pre.unet[k]

C8_Witness ==
    /\ last.op = "load"
    /\ DOMAIN LoadedFile = {"image_adapter"}
    /\ ~last.raised
    /\ models.image_adapter # last.pre.image_adapter
    /\ models.text_adapter = FreshModels.text_adapter
    /\ models.unet = FreshModels.unet

\* The U-Net names that are cross-attention (attn2) query/key/value
\* projections or the attn2 processor, written out.
CrossAttentionNames ==
    {KeyDownToQ, KeyDownToKLora, KeyMidToV, KeyMidProcessor, KeyMidToKIp}

DigitOf(c) == CHOOSE d \in 0..9 : DigitChars[d + 1] = c

RECURSIVE DigitsValue(_)
DigitsValue(s) ==
    IF s = <<>> THEN 0
    ELSE 10 * DigitsValue(SubSeq(s, 1, Len(s) - 1)) + DigitOf(s[Len(s)])

IsDigits(s) == \A k \in 1..Len(s) : \E d \in 1..10 : DigitChars[d] = s[k]

SavedContentRight ==
    LET f == disk[last.path]
    IN  /\ DOMAIN f = {"image_adapter", "text_adapter", "cross_attention_adapter"}
        /\ f["image_adapter"] = models.image_adapter
        /\ f["text_adapter"] = models.text_adapter
        /\ DOMAIN f["cross_attention_adapter"] = CrossAttentionNames
        /\ \A k \in CrossAttentionNames :
              f["cross_attention_adapter"][k] = models.unet[k]

\* The digits between "photoverse_" and ".pt".
Suffix(path) == SubSeq(path, 2, Len(path) - 1)

\* C10 as claimed: the saved mapping has exactly the three keys, its
\* cross_attention_adapter holds exactly the U-Net's cross-attention
\* projection entries, and the file is photoverse.pt without a step and
\* photoverse_ plus six zero-padded digits for every given step.
C10_SixDigitSuffix ==
    last.op = "save" =>
        /\ SavedContentRight
        /\ last.stp = <<>> => last.path = <<"photoverse.pt">>
        /\ last.stp # <<>> =>
              /\ Head(last.path) = "photoverse_"
              /\ last.path[Len(last.path)] = ".pt"
              /\ Len(Suffix(last.path)) = 6
              /\ IsDigits(Suffix(last.path))
              /\ DigitsValue(Suffix(last.path)) = last.stp[1]

\* C10 as amended: as claimed, but for a given step >= 0 the suffix is the
\* step's decimal digits padded with zeros on the left to at least six
\* digits: six digits up to step 999999, all the step's digits beyond.
C10_PaddedSuffix ==
    last.op = "save" =>
        /\ SavedContentRight
        /\ last.stp = <<>> => last.path = <<"photoverse.pt">>
        /\ last.stp # <<>> =>
              /\ Head(last.path) = "photoverse_"
              /\ last.path[Len(last.path)] = ".pt"
              /\ Len(Suffix(last.path)) >= 6
              /\ last.stp[1] <= 999999 => Len(Suffix(last.path)) = 6
              /\ last.stp[1] > 999999 => Suffix(last.path)[1] # "0"
              /\ IsDigits(Suffix(last.path))
              /\ DigitsValue(Suffix(last.path)) = last.stp[1]

C10_Witness ==
    /\ last.op = "save"
    /\ last.stp = <<7>>
    /\ last.path = <<"photoverse_", "0", "0", "0", "0", "0", "7", ".pt">>
    /\ models.unet # FreshModels.unet
    /\ last.path \in DOMAIN disk

====
